---- MODULE Spec2Model ----
(***************************************************************************)
(* A model of crates/witx-bindgen/src/lib.rs, the Kotlin binding generator *)
(* for witx interface descriptions.                                        *)
(*                                                                         *)
(* Generated text is a sequence of tokens (strings): push_str appends a    *)
(* token, format! appends its pieces.  A generator that can panic returns  *)
(* [ok, s]: ok = FALSE is the panic (unimplemented!, panic!, unwrap on     *)
(* None, a failed assert!) and s the text written up to it.                *)
(***************************************************************************)
EXTENDS Integers, Sequences, FiniteSets, TLC

VARIABLES
    mode,           \* which driver owns the run: "emit", "block", "func" or "mem"
    src,            \* Rust.src: the current output buffer
    block_storage,  \* Rust.block_storage: the saved buffers
    blocks,         \* Rust.blocks: the completed blocks
    stack,          \* the engine's operand stack
    aborted,        \* generation panicked
    last,           \* the last visitor call: instruction, operands, results
    func,           \* the interface function being rendered
    pc,             \* position of the run
    stream,         \* the engine's calls still to make for func
    rawsrc,         \* the text of the raw import of func
    memty,          \* the named type whose load/store code is generated
    loadgen,        \* load_type's result for memty
    storegen,       \* store_type's result for memty
    val,            \* the value stored
    mem,            \* linear memory after the generated store ran
    loaded,         \* what the generated load read back
    ptrbase         \* the address the generated code is given as ptr

vars == <<mode, src, block_storage, blocks, stack, aborted, last, func, pc,
          stream, rawsrc, memty, loadgen, storegen, val, mem, loaded, ptrbase>>

(***************************************************************************)
(* Bounds of the model.                                                    *)
(***************************************************************************)
MaxCalls == 3       \* visitor calls of one run of the free-running driver
MaxParams == 2      \* parameters of an interface function
BigCases == 130     \* cases of the large enum-like variant (more than a signed Byte counts)
MaxBlockCalls == 6  \* visitor calls of one run of the block driver
MemSize == 40       \* bytes of linear memory the generated code runs against

(***************************************************************************)
(* Text.                                                                   *)
(***************************************************************************)
Push(s, tok) == IF tok = "" THEN s ELSE Append(s, tok)

RECURSIVE Join(_, _)
Join(ops, sep) ==
    IF ops = <<>> THEN <<>>
    ELSE IF Len(ops) = 1 THEN ops[1]
    ELSE ops[1] \o <<sep>> \o Join(Tail(ops), sep)

\* the texts f[lo], ..., f[hi] one after the other
RECURSIVE Flatten(_, _, _)
Flatten(f, lo, hi) ==
    IF lo > hi THEN <<>>
    ELSE IF lo = hi THEN f[lo]
    ELSE Flatten(f, lo, (lo + hi) \div 2) \o Flatten(f, (lo + hi) \div 2 + 1, hi)

Ok(s) == [ok |-> TRUE, s |-> s]

Panic(s) == [ok |-> FALSE, s |-> s]

\* the text written after a generator returned: nothing more is written once it panicked
AndPush(r, toks) == IF r.ok THEN Ok(r.s \o toks) ELSE r

(***************************************************************************)
(* The interface description document: type references, types, named      *)
(* types.                                                                  *)
(***************************************************************************)
Name(n) == [ref |-> "Name", name |-> n]

Value(t) == [ref |-> "Value", ty |-> t]

NoTref == [ref |-> "None"]

Builtin(b) == [kind |-> "Builtin", b |-> b]

Handle == [kind |-> "Handle"]

Pointer(t) == [kind |-> "Pointer", to |-> t]

ConstPointer(t) == [kind |-> "ConstPointer", to |-> t]

List(t) == [kind |-> "List", of |-> t]

Record(rkind, repr, members) == [kind |-> "Record", rkind |-> rkind, repr |-> repr, members |-> members]

Variant(tag, cases) == [kind |-> "Variant", tag_repr |-> tag, cases |-> cases]

Member(n, t) == [name |-> n, tref |-> t]

BoolTref == Value(Variant("U8", <<Member("false", NoTref), Member("true", NoTref)>>))

BigEnumCases == [i \in 1..BigCases |-> Member(ToString(i - 1), NoTref)]

TypeNames == {"small", "ratio", "delta", "size", "filesize", "fd", "level", "bigenum", "rights", "stat",
              "tagged", "nested", "event", "option", "holder", "iovec", "wide", "sizealias",
              "ref", "wrap", "bufs", "ioalias"}

Doc == [n \in TypeNames |->
    CASE n = "small"     -> [name |-> n, tref |-> Value(Builtin("U8"))]
      [] n = "ratio"     -> [name |-> n, tref |-> Value(Builtin("F32"))]
      [] n = "delta"     -> [name |-> n, tref |-> Value(Builtin("S64"))]
      [] n = "size"      -> [name |-> n, tref |-> Value(Builtin("U32"))]
      [] n = "filesize"  -> [name |-> n, tref |-> Value(Builtin("U64"))]
      [] n = "fd"        -> [name |-> n, tref |-> Value(Handle)]
      [] n = "level"     -> [name |-> n, tref |-> Value(Variant("U8",
                                <<Member("ok", NoTref), Member("warn", NoTref), Member("fail", NoTref)>>))]
      [] n = "bigenum"   -> [name |-> n, tref |-> Value(Variant("U8", BigEnumCases))]
      [] n = "rights"    -> [name |-> n, tref |-> Value(Record("Bitflags", "U16",
                                <<Member("read", BoolTref), Member("write", BoolTref), Member("seek", BoolTref)>>))]
      [] n = "stat"      -> [name |-> n, tref |-> Value(Record("Other", "none",
                                <<Member("len", Name("size")), Member("total", Name("filesize")),
                                  Member("mode", Name("level"))>>))]
      [] n = "tagged"    -> [name |-> n, tref |-> Value(Record("Other", "none",
                                <<Member("a", Value(Builtin("U8"))), Member("b", Value(Builtin("U32")))>>))]
      [] n = "nested"    -> [name |-> n, tref |-> Value(Record("Other", "none",
                                <<Member("in", Name("fd")), Member("flags", Name("rights")),
                                  Member("inner", Name("stat"))>>))]
      [] n = "event"     -> [name |-> n, tref |-> Value(Variant("U8",
                                <<Member("tick", Name("filesize")), Member("open", Name("fd"))>>))]
      [] n = "option"    -> [name |-> n, tref |-> Value(Variant("U8",
                                <<Member("none", NoTref), Member("some", Name("size"))>>))]
      [] n = "holder"    -> [name |-> n, tref |-> Value(Record("Other", "none",
                                <<Member("id", Name("size")), Member("ev", Name("event"))>>))]
      [] n = "iovec"     -> [name |-> n, tref |-> Value(Record("Other", "none",
                                <<Member("buf", Value(Pointer(Value(Builtin("U8"))))),
                                  Member("buf_len", Name("size"))>>))]
      [] n = "wide"      -> [name |-> n, tref |-> Value(Variant("U32",
                                <<Member("lo", NoTref), Member("mid", NoTref), Member("hi", NoTref)>>))]
      [] n = "sizealias" -> [name |-> n, tref |-> Name("size")]
      [] n = "ref"       -> [name |-> n, tref |-> Value(Variant("U8",
                                <<Member("at", Value(Pointer(Value(Builtin("U8"))))),
                                  Member("len", Name("size"))>>))]
      [] n = "wrap"      -> [name |-> n, tref |-> Value(Record("Other", "none",
                                <<Member("id", Name("size")), Member("r", Name("ref"))>>))]
      [] n = "bufs"      -> [name |-> n, tref |-> Value(List(Name("iovec")))]
      [] n = "ioalias"   -> [name |-> n, tref |-> Name("iovec")]]

RECURSIVE type_(_)
type_(tref) == IF tref.ref = "Name" THEN type_(Doc[tref.name].tref) ELSE tref.ty

is_tuple(r) == r.rkind = "Tuple"

bitflags_repr(r) == IF r.rkind = "Bitflags" THEN r.repr ELSE "none"

(***************************************************************************)
(* heck's case conversions, on the identifiers of the document.            *)
(***************************************************************************)
to_camel_case(n) ==
    CASE n = "small" -> "Small" [] n = "ratio" -> "Ratio" [] n = "delta" -> "Delta"
      [] n = "size" -> "Size" [] n = "filesize" -> "Filesize" [] n = "fd" -> "Fd"
      [] n = "level" -> "Level" [] n = "bigenum" -> "Bigenum" [] n = "rights" -> "Rights"
      [] n = "stat" -> "Stat" [] n = "tagged" -> "Tagged" [] n = "nested" -> "Nested"
      [] n = "event" -> "Event" [] n = "option" -> "Option" [] n = "holder" -> "Holder"
      [] n = "iovec" -> "Iovec" [] n = "wide" -> "Wide" [] n = "sizealias" -> "Sizealias"
      [] n = "ref" -> "Ref" [] n = "wrap" -> "Wrap" [] n = "bufs" -> "Bufs" [] n = "ioalias" -> "Ioalias"

to_rust_ident(n) == IF n = "in" THEN "in_" ELSE n

(***************************************************************************)
(* Memory layout of the types (witx's Layout): sizes, alignments, member   *)
(* offsets, the payload offset of a variant.                               *)
(***************************************************************************)
align_to(n, a) == ((n + a - 1) \div a) * a

Max2(a, b) == IF a >= b THEN a ELSE b

builtin_size(b) ==
    CASE b \in {"U8", "S8"} -> 1
      [] b \in {"U16", "S16"} -> 2
      [] b \in {"U32", "S32", "F32", "Char"} -> 4
      [] b \in {"U64", "S64", "F64"} -> 8

max_size_align(x, y) == [size |-> Max2(x.size, y.size), align |-> Max2(x.align, y.align)]

\* the layout of a record whose members end at offset end and whose largest alignment is a
record_size_align(end, a) == [size |-> align_to(end, a), align |-> a]

\* the layout of a variant: a tag of tag bytes, then the payload p
variant_size_align(tag, p) ==
    [size |-> align_to(align_to(tag, p.align) + p.size, Max2(tag, p.align)), align |-> Max2(tag, p.align)]

RECURSIVE mem_size_align(_)
RECURSIVE member_end(_, _)
RECURSIVE max_member_align(_, _)
RECURSIVE max_payload(_, _)

\* the offset just past a value of size and alignment sa placed at or after off
place(off, sa) == align_to(off, sa.align) + sa.size

\* the offset just past member i of a record laid out in declaration order
member_end(members, i) ==
    IF i = 0 THEN 0
    ELSE place(member_end(members, i - 1), mem_size_align(type_(members[i].tref)))

max_member_align(members, i) ==
    IF i = 0 THEN 1
    ELSE Max2(mem_size_align(type_(members[i].tref)).align, max_member_align(members, i - 1))

\* the largest payload size and alignment over the first i cases
max_payload(cases, i) ==
    IF i = 0 THEN [size |-> 0, align |-> 1]
    ELSE IF cases[i].tref.ref = "None" THEN max_payload(cases, i - 1)
    ELSE max_size_align(mem_size_align(type_(cases[i].tref)), max_payload(cases, i - 1))

mem_size_align(t) ==
    CASE t.kind = "Builtin" -> [size |-> builtin_size(t.b), align |-> builtin_size(t.b)]
      [] t.kind \in {"Handle", "Pointer", "ConstPointer"} -> [size |-> 4, align |-> 4]
      [] t.kind = "List" -> [size |-> 8, align |-> 4]
      [] t.kind = "Record" ->
            IF bitflags_repr(t) # "none"
            THEN [size |-> builtin_size(t.repr), align |-> builtin_size(t.repr)]
            ELSE record_size_align(member_end(t.members, Len(t.members)),
                                   max_member_align(t.members, Len(t.members)))
      [] t.kind = "Variant" ->
            variant_size_align(builtin_size(t.tag_repr), max_payload(t.cases, Len(t.cases)))

mem_size(t) == mem_size_align(t).size

\* member_layout(record)[i].offset
member_offset(record, i) ==
    align_to(member_end(record.members, i - 1), mem_size_align(type_(record.members[i].tref)).align)

payload_offset(variant) ==
    align_to(builtin_size(variant.tag_repr), max_payload(variant.cases, Len(variant.cases)).align)

(***************************************************************************)
(* Safety classification (impl IsSafe).                                    *)
(***************************************************************************)
RECURSIVE type_is_safe(_)
RECURSIVE type_is_safe_shallow(_)
\* type_is_safe that does not look into the payloads of a variant
type_is_safe_shallow(t) ==
    CASE t.kind = "Record" -> \A i \in 1..Len(t.members) : type_is_safe(type_(t.members[i].tref))
      [] t.kind = "Variant" -> TRUE
      [] t.kind = "Handle" -> TRUE
      [] t.kind = "List" -> type_is_safe(type_(t.of))
      [] t.kind = "Pointer" -> FALSE
      [] t.kind = "ConstPointer" -> FALSE
      [] t.kind = "Builtin" -> TRUE

type_is_safe(t) ==
    CASE t.kind = "Record" -> \A i \in 1..Len(t.members) : type_is_safe(type_(t.members[i].tref))
      [] t.kind = "Variant" -> \A i \in 1..Len(t.cases) :
                                  t.cases[i].tref.ref = "None" \/ type_is_safe(type_(t.cases[i].tref))
      [] t.kind = "Handle" -> TRUE
      [] t.kind = "List" -> type_is_safe(type_(t.of))
      [] t.kind = "Pointer" -> FALSE
      [] t.kind = "ConstPointer" -> FALSE
      [] t.kind = "Builtin" -> TRUE

tref_is_safe(tref) == type_is_safe(type_(tref))

func_is_safe(f) ==
    /\ \A i \in 1..Len(f.params) : tref_is_safe(f.params[i].tref)
    /\ \A i \in 1..Len(f.results) : tref_is_safe(f.results[i].tref)

is_variant_enum_like(v) == \A i \in 1..Len(v.cases) : v.cases[i].tref.ref = "None"

(***************************************************************************)
(* Load and store code generation.                                         *)
(***************************************************************************)
load_fun(repr) ==
    CASE repr = "U8" -> "loadByte" [] repr = "U16" -> "loadShort"
      [] repr = "U32" -> "loadInt" [] repr = "U64" -> "loadLong"

store_fun(repr) ==
    CASE repr = "U8" -> "storeByte" [] repr = "U16" -> "storeShort"
      [] repr = "U32" -> "storeInt" [] repr = "U64" -> "storeLong"

to_kotlin_type(repr) ==
    CASE repr = "U8" -> "Byte" [] repr = "U16" -> "Short"
      [] repr = "U32" -> "Int" [] repr = "U64" -> "Long"

load_int_repr(repr, ptr, s) == Ok(s \o <<load_fun(repr), "(">> \o ptr \o <<")">>)

store_int_repr(repr, reference, ptr, s) ==
    Ok(s \o <<store_fun(repr), "(">> \o ptr \o <<", ">> \o reference \o <<")">>)

load_built_in(builtin, ptr, s) ==
    CASE builtin = "U32" -> load_int_repr("U32", ptr, s)
      [] builtin = "U64" -> load_int_repr("U64", ptr, s)
      [] OTHER -> Panic(s)

store_built_in(builtin, reference, ptr, s) ==
    CASE builtin = "U32" -> store_int_repr("U32", reference, ptr, s)
      [] builtin = "U64" -> store_int_repr("U64", reference, ptr, s)
      [] OTHER -> Panic(s)

load_handle(ptr, s) == load_int_repr("U32", ptr, s)

load_value_type(vt, ptr, s) ==
    CASE vt.kind = "Record" -> Panic(s)
      [] vt.kind = "Variant" -> Panic(s)
      [] vt.kind = "Handle" -> load_handle(ptr, s)
      [] vt.kind = "List" -> Panic(s)
      [] vt.kind = "Pointer" -> load_int_repr("U32", ptr, s)
      [] vt.kind = "ConstPointer" -> load_int_repr("U32", ptr, s)
      [] vt.kind = "Builtin" -> load_built_in(vt.b, ptr, s)

store_value_type(vt, reference, ptr, s) ==
    CASE vt.kind = "Record" -> Panic(s)
      [] vt.kind = "Variant" -> Panic(s)
      [] vt.kind = "List" -> Panic(s)
      [] vt.kind \in {"Handle", "Pointer", "ConstPointer"} -> store_int_repr("U32", reference, ptr, s)
      [] vt.kind = "Builtin" -> store_built_in(vt.b, reference, ptr, s)

RECURSIVE store_type(_, _, _, _)
RECURSIVE store_members(_, _, _, _, _)
RECURSIVE load_type(_, _, _)
RECURSIVE load_members(_, _, _, _)
RECURSIVE load_cases(_, _, _, _, _)

store_type_ref(tr, reference, ptr, s) ==
    IF tr.ref = "Name" THEN store_type(Doc[tr.name], reference, ptr, s)
    ELSE store_value_type(tr.ty, reference, ptr, s)

\* the loop over record.members, from member i on; r is the text so far
store_members(record, i, reference, ptr, r) ==
    IF ~r.ok \/ i > Len(record.members) THEN r
    ELSE store_members(record, i + 1, reference, ptr,
            AndPush(store_type_ref(record.members[i].tref,
                                   reference \o <<".", to_rust_ident(record.members[i].name)>>,
                                   ptr \o <<" + ", ToString(member_offset(record, i))>>,
                                   r.s),
                    <<"\n">>))

store_variant(variant, reference, ptr, s) ==
    IF is_variant_enum_like(variant)
    THEN store_int_repr(variant.tag_repr,
                        reference \o <<".ordinal.to", to_kotlin_type(variant.tag_repr), "()">>, ptr, s)
    ELSE Ok(Append(s, "TODO()"))

store_type(nt, reference, ptr, s) ==
    LET t == type_(nt.tref) IN
    CASE t.kind = "Record" ->
            IF is_tuple(t) THEN Panic(s)
            ELSE IF bitflags_repr(t) # "none" THEN store_int_repr(bitflags_repr(t), reference, ptr, s)
            ELSE store_members(t, 1, reference, ptr, Ok(s))
      [] t.kind = "Variant" -> store_variant(t, reference, ptr, s)
      [] t.kind = "Handle" -> store_int_repr("U32", reference, ptr, s)
      [] t.kind = "List" -> Panic(s)
      [] t.kind = "Pointer" -> Panic(s)
      [] t.kind = "ConstPointer" -> Panic(s)
      [] t.kind = "Builtin" -> store_built_in(t.b, reference, ptr, s)

load_type_ref(tr, ptr, s) ==
    IF tr.ref = "Name" THEN load_type(Doc[tr.name], ptr, s)
    ELSE load_value_type(tr.ty, ptr, s)

\* the loop over record.members, from member i on; r is the text so far
load_members(record, i, ptr, r) ==
    IF ~r.ok \/ i > Len(record.members) THEN r
    ELSE load_members(record, i + 1, ptr,
            AndPush(load_type_ref(record.members[i].tref,
                                  ptr \o <<" + ", ToString(member_offset(record, i))>>,
                                  r.s),
                    <<",">>))

\* the text that opens the arm of case i (the source counts from 0)
case_head(nt, variant, i, s) ==
    s \o <<ToString(i - 1), " -> { ", to_camel_case(nt.name), ".", variant.cases[i].name, "(">>

\* the loop over variant.cases, from case i on; r is the text so far
load_cases(nt, variant, i, ptr, r) ==
    IF ~r.ok \/ i > Len(variant.cases) THEN r
    ELSE IF variant.cases[i].tref.ref = "None" THEN Panic(case_head(nt, variant, i, r.s))
    ELSE load_cases(nt, variant, i + 1, ptr,
            AndPush(load_type_ref(variant.cases[i].tref,
                                  ptr \o <<" + ", ToString(payload_offset(variant))>>,
                                  case_head(nt, variant, i, r.s)),
                    <<")", "} ">>))

safe_prefix(tref) == IF tref_is_safe(tref) THEN "" ELSE "__unsafe__"

load_type(nt, ptr, s) ==
    LET t == type_(nt.tref) IN
    CASE t.kind = "Record" ->
            IF is_tuple(t) THEN Panic(s)
            ELSE IF bitflags_repr(t) # "none" THEN load_int_repr(bitflags_repr(t), ptr, s)
            ELSE AndPush(load_members(t, 1, ptr,
                                      Ok(Push(s, safe_prefix(nt.tref)) \o <<to_camel_case(nt.name), "(">>)),
                         <<")">>)
      [] t.kind = "Variant" ->
            IF is_variant_enum_like(t)
            THEN AndPush(load_int_repr(t.tag_repr, ptr, s \o <<to_camel_case(nt.name), ".values()[">>),
                         <<".toInt()]">>)
            ELSE AndPush(load_cases(nt, t, 1, ptr,
                                    AndPush(load_int_repr(t.tag_repr, ptr, Append(s, "when (")),
                                            <<".toInt()) { ">>)),
                         <<"else -> error(\"Invalid variant\")", "}">>)
      [] t.kind = "Handle" -> load_handle(ptr, s)
      [] t.kind = "List" -> Panic(s)
      [] t.kind = "Pointer" -> Panic(s)
      [] t.kind = "ConstPointer" -> Panic(s)
      [] t.kind = "Builtin" -> load_built_in(t.b, ptr, s)

(***************************************************************************)
(* The instruction interpreter (impl Bindgen for Rust).  An operand is a   *)
(* piece of text.  A visitor call returns [ok, src, blocks, results]: the  *)
(* output buffer, the completed blocks and the results vector it leaves,   *)
(* with ok = FALSE when it panics.                                         *)
(***************************************************************************)
Inst(op, n, k, name) == [op |-> op, n |-> n, k |-> k, name |-> name]

Done(s, b, results) == [ok |-> TRUE, src |-> s, blocks |-> b, results |-> results]

Abort(s, b) == [ok |-> FALSE, src |-> s, blocks |-> b, results |-> <<>>]

Last(ops) == ops[Len(ops)]

\* the closure top_as: pops the last operand and pushes it converted
top_as(cvt, operands, s, b) ==
    IF operands = <<>> THEN Abort(s, b)
    ELSE Done(s, b, <<Last(operands) \o <<".to", cvt, "()">>>>)

ToLong == {"I64FromBitflags", "I64FromU64"}

ToInt32 == {"I32FromPointer", "I32FromConstPointer", "I32FromHandle", "I32FromUsize",
            "I32FromChar", "I32FromU8", "I32FromS8", "I32FromChar8", "I32FromU16",
            "I32FromS16", "I32FromU32", "I32FromBitflags"}

PassThrough == {"F32FromIf32", "F64FromIf64", "If32FromF32", "If64FromF64", "I64FromS64", "I32FromS32"}

ToByte == {"S8FromI32", "Char8FromI32", "U8FromI32"}

ToShort == {"S16FromI32", "U16FromI32"}

IdentityLifts == {"S32FromI32", "U32FromI32", "S64FromI64", "U64FromI64", "UsizeFromI32",
                  "HandleFromI32", "PointerFromI32", "ConstPointerFromI32"}

Unsupported == {"AddrOf", "BitflagsFromI32", "BitflagsFromI64", "CharFromI32", "Store",
                "ListFromPointerLength", "CallInterface", "ResultLower", "TupleLower",
                "VariantPayload"}

emit_get_arg(nth, params, s, b) ==
    IF nth + 1 > Len(params) THEN Abort(s, b)
    ELSE Done(s, b, <<<<to_rust_ident(params[nth + 1].name)>>>>)

emit_enum_lower(operands, s, b) ==
    IF operands = <<>> THEN Abort(s, b) ELSE Done(s, b, <<Append(operands[1], ".ordinal")>>)

emit_pass_through(operands, s, b) ==
    IF operands = <<>> THEN Abort(s, b) ELSE Done(s, b, <<Last(operands)>>)

emit_list_pointer_length(operands, s, b) ==
    IF operands = <<>> THEN Abort(s, b)
    ELSE LET list == Last(operands)
         IN Done(s, b, << <<"allocator.writeToLinearMemory(">> \o list \o <<")">>,
                          Append(list, ".size") >>)

emit_identity_lift(operands, s, b) == Done(s, b, <<>>)

emit_return_pointer_get(n, s, b) == Done(s, b, <<<<"rp", ToString(n)>>>>)

\* the one result of an instruction whose text the generator r wrote
Result(r, s, b) == IF r.ok THEN Done(s, b, <<r.s>>) ELSE Abort(s, b)

emit_load(ty, operands, s, b) ==
    IF Doc[ty].tref.ref = "Name" \/ operands = <<>> THEN Abort(s, b)
    ELSE Result(load_type(Doc[ty], operands[1], <<>>), s, b)

emit_tuple_lift(operands, s, b) ==
    IF Len(operands) # 2 THEN Abort(s, b)
    ELSE Done(s, b, << <<"Pair(">> \o Join(operands, ", ") \o <<")">> >>)

\* emit_result_lift with the two blocks taken in the other order
emit_result_lift_swapped(operands, s, b) ==
    IF Len(b) < 2 \/ operands = <<>> THEN Abort(s, b)
    ELSE Done(s, SubSeq(b, 1, Len(b) - 2),
              << <<"if (">> \o operands[1] \o <<" == 0) {\n">> \o b[Len(b)]
                 \o <<"} else {", "throw WasiError(">> \o b[Len(b) - 1] \o <<")\n", "}\n">> >>)

emit_result_lift(operands, s, b) ==
    IF Len(b) < 2 \/ operands = <<>> THEN Abort(s, b)
    ELSE LET err == b[Len(b)]
             ok == b[Len(b) - 1]
         IN Done(s, SubSeq(b, 1, Len(b) - 2),
                 << <<"if (">> \o operands[1] \o <<" == 0) {\n">> \o ok
                    \o <<"} else {", "throw WasiError(">> \o err \o <<")\n", "}\n">> >>)

emit_enum_lift(ty, operands, s, b) ==
    IF operands = <<>> THEN Abort(s, b)
    ELSE Done(s, b, << <<to_camel_case(ty), ".values()[">> \o operands[1] \o <<"]">> >>)

\* emit_call_wasm calling the function by its bare name
emit_call_wasm_bare(inst, operands, s, b) ==
    IF inst.n >= 2 THEN Abort(s, b)
    ELSE IF inst.n > 0
         THEN Done(s \o <<"val ret = ", inst.name, "(">> \o Join(operands, ", ") \o <<");\n">>, b, <<<<"ret">>>>)
         ELSE Done(s \o <<inst.name, "(">> \o Join(operands, ", ") \o <<");\n">>, b, <<>>)

\* inst.n is the number of results of the raw function, inst.name its name
emit_call_wasm(inst, operands, s, b) ==
    IF inst.n >= 2 THEN Abort(s, b)
    ELSE LET call == <<"_raw_wasm__", inst.name, "(">> \o Join(operands, ", ") \o <<");\n">>
         IN IF inst.n > 0 THEN Done(Append(s, "val ret = ") \o call, b, <<<<"ret">>>>)
            ELSE Done(s \o call, b, <<>>)

\* emit_return writing a return statement also when no value is returned
emit_return_bare(amt, operands, s, b) ==
    CASE amt = 0 -> Done(Append(s, "return"), b, <<>>)
      [] amt = 1 -> IF operands = <<>> THEN Abort(s, b)
                    ELSE Done(Append(s, "return ") \o operands[1], b, <<>>)
      [] OTHER -> Abort(s, b)

emit_return(amt, operands, s, b) ==
    CASE amt = 0 -> Done(s, b, <<>>)
      [] amt = 1 -> IF operands = <<>> THEN Abort(s, b)
                    ELSE Done(Append(s, "return ") \o operands[1], b, <<>>)
      [] OTHER -> Abort(s, b)

\* emit_unsupported answering with placeholder code instead of panicking
emit_unsupported_approx(inst, operands, s, b) == Done(Append(s, "TODO()"), b, <<>>)

emit_unsupported(inst, operands, s, b) == Abort(s, b)

emit(inst, operands, params, s, b) ==
    CASE inst.op = "GetArg" -> emit_get_arg(inst.n, params, s, b)
      [] inst.op \in ToLong -> top_as("Long", operands, s, b)
      [] inst.op \in ToInt32 -> top_as("Int", operands, s, b)
      [] inst.op = "EnumLower" -> emit_enum_lower(operands, s, b)
      [] inst.op \in PassThrough -> emit_pass_through(operands, s, b)
      [] inst.op = "ListPointerLength" -> emit_list_pointer_length(operands, s, b)
      [] inst.op \in ToByte -> top_as("Byte", operands, s, b)
      [] inst.op \in ToShort -> top_as("Short", operands, s, b)
      [] inst.op \in IdentityLifts -> emit_identity_lift(operands, s, b)
      [] inst.op = "ReturnPointerGet" -> emit_return_pointer_get(inst.n, s, b)
      [] inst.op = "Load" -> emit_load(inst.name, operands, s, b)
      [] inst.op = "ReuseReturn" -> Done(s, b, <<<<"ret">>>>)
      [] inst.op = "TupleLift" -> emit_tuple_lift(operands, s, b)
      [] inst.op = "ResultLift" -> emit_result_lift(operands, s, b)
      [] inst.op = "EnumLift" -> emit_enum_lift(inst.name, operands, s, b)
      [] inst.op = "CallWasm" -> emit_call_wasm(inst, operands, s, b)
      [] inst.op = "Return" -> emit_return(inst.n, operands, s, b)
      [] inst.op \in Unsupported -> emit_unsupported(inst, operands, s, b)

\* push_block that saves the buffer and goes on writing into it
push_block_keep(s, storage) == [src |-> s, block_storage |-> Append(storage, s)]

\* push_block: [src, block_storage] after the call
push_block(s, storage) == [src |-> <<>>, block_storage |-> Append(storage, s)]

\* finish_block that restores the saved buffer and leaves it on the save stack
finish_block_keep(operand, s, storage, b) ==
    IF storage = <<>> THEN [ok |-> FALSE, src |-> s, block_storage |-> storage, blocks |-> b]
    ELSE [ok |-> operand # <<>> \/ s = <<>>, src |-> Last(storage), block_storage |-> storage,
          blocks |-> Append(b, IF operand = <<>> THEN <<"Unit">> ELSE operand[1])]

\* finish_block(operand): operand is <<>> for None, <<text>> for Some(text)
finish_block(operand, s, storage, b) ==
    IF storage = <<>> THEN [ok |-> FALSE, src |-> s, block_storage |-> storage, blocks |-> b]
    ELSE LET to_restore == Last(storage)
             rest == SubSeq(storage, 1, Len(storage) - 1)
         IN IF operand = <<>>
            THEN [ok |-> s = <<>>, src |-> to_restore, block_storage |-> rest,
                  blocks |-> IF s = <<>> THEN Append(b, <<"Unit">>) ELSE b]
            ELSE [ok |-> TRUE, src |-> to_restore, block_storage |-> rest,
                  blocks |-> IF s = <<>> THEN Append(b, operand[1])
                             ELSE Append(b, <<"{ ">> \o s \o <<";\n ">> \o operand[1] \o <<" }">>)]

allocate_space(n, ty, s) ==
    s \o <<"val rp", ToString(n), " = allocator.allocate(", ToString(mem_size(type_(Doc[ty].tref))), ")\n">>

(***************************************************************************)
(* Type rendering (impl Render for TypeRef, BuiltinType, WasmType).        *)
(***************************************************************************)
builtin_render(b, s) ==
    CASE b \in {"U8", "S8"} -> Ok(Append(s, "Byte"))
      [] b \in {"U16", "S16"} -> Ok(Append(s, "Short"))
      [] b \in {"U32", "S32"} -> Ok(Append(s, "Int"))
      [] b \in {"U64", "S64"} -> Ok(Append(s, "Long"))
      [] b = "F32" -> Ok(Append(s, "Float"))
      [] b = "F64" -> Ok(Append(s, "Double"))
      [] b = "Char" -> Panic(s)

wasm_type_render(w, s) ==
    CASE w = "I32" -> Append(s, "Int") [] w = "I64" -> Append(s, "Long")
      [] w = "F32" -> Append(s, "Float") [] w = "F64" -> Append(s, "Double")

is_bool(v) ==
    /\ Len(v.cases) = 2
    /\ v.cases[1].name = "false" /\ v.cases[2].name = "true"
    /\ v.cases[1].tref.ref = "None" /\ v.cases[2].tref.ref = "None"

\* Variant::as_expected: <<>> for None, <<ok, err>> for Some((ok, err))
as_expected(v) ==
    IF Len(v.cases) = 2 /\ v.cases[1].name = "ok" /\ v.cases[2].name = "err"
    THEN <<v.cases[1].tref, v.cases[2].tref>>
    ELSE <<>>

RECURSIVE tref_render(_, _)
RECURSIVE tuple_members_render(_, _, _)

\* the loop over the members of a tuple, from member i on; r is the text so far
tuple_members_render(members, i, r) ==
    IF ~r.ok \/ i > Len(members) THEN r
    ELSE tuple_members_render(members, i + 1, AndPush(tref_render(members[i].tref, r.s), <<",">>))

tref_render(tref, s) ==
    IF tref.ref = "Name"
    THEN Ok(Append(Push(s, safe_prefix(tref)), to_camel_case(tref.name)))
    ELSE LET v == tref.ty IN
         CASE v.kind = "Builtin" -> builtin_render(v.b, s)
           [] v.kind = "List" ->
                IF type_(v.of).kind = "Builtin" /\ type_(v.of).b = "Char" THEN Ok(Append(s, "String"))
                ELSE AndPush(tref_render(v.of, Append(s, "List<")), <<">">>)
           [] v.kind \in {"Pointer", "ConstPointer"} ->
                AndPush(tref_render(v.to, Append(s, "Pointer/*<")), <<">*/">>)
           [] v.kind = "Variant" ->
                IF is_bool(v) THEN Ok(Append(s, "Boolean"))
                ELSE IF as_expected(v) = <<>> THEN Panic(s)
                ELSE IF as_expected(v)[1].ref = "None" THEN Ok(Append(s, "Unit"))
                ELSE tref_render(as_expected(v)[1], s)
           [] v.kind = "Record" ->
                IF ~is_tuple(v) \/ Len(v.members) # 2 THEN Panic(s)
                ELSE AndPush(tuple_members_render(v.members, 1, Ok(Append(s, "Pair<"))), <<">">>)
           [] OTHER -> Panic(s)

(***************************************************************************)
(* Declarations of the named types (impl Render for NamedType).  The      *)
(* documentation comments of the document are empty, so rustdoc writes     *)
(* nothing.                                                                *)
(***************************************************************************)
to_shouty_snake_case(n) ==
    CASE n = "rights" -> "RIGHTS" [] n = "read" -> "READ" [] n = "write" -> "WRITE"
      [] n = "seek" -> "SEEK" [] n = "ok" -> "OK" [] n = "warn" -> "WARN" [] n = "fail" -> "FAIL"
      [] n = "lo" -> "LO" [] n = "mid" -> "MID" [] n = "hi" -> "HI"
      [] OTHER -> n

RECURSIVE record_fields(_, _, _)
\* the loop over the members of a data class, from member i on; r is the text so far
record_fields(members, i, r) ==
    IF ~r.ok \/ i > Len(members) THEN r
    ELSE record_fields(members, i + 1,
            AndPush(tref_render(members[i].tref, r.s \o <<"var ", to_rust_ident(members[i].name), ": ">>),
                    <<",\n">>))

\* the __load_ helper of a data class named full, after the text r
record_load_helper(nt, full, r) ==
    IF ~r.ok THEN r
    ELSE AndPush(load_type(nt, <<"ptr">>,
                           r.s \o <<")", "internal fun __load_">> \o full \o <<"(ptr: Int): ">> \o full
                               \o <<" {\n", "    return ">>),
                 <<"\n}\n">>)

\* the __store_ helper of a data class named full, after the text r
record_store_helper(nt, full, r) ==
    IF ~r.ok THEN r
    ELSE AndPush(store_type(nt, <<"x">>, <<"ptr">>,
                            r.s \o <<"internal fun __store_">> \o full \o <<"(x: ">> \o full
                                \o <<", ptr: Int) {\n">>),
                 <<"\n}\n">>)

render_record(nt, t, s) ==
    IF bitflags_repr(t) # "none"
    THEN Ok(s \o <<"typealias ", to_camel_case(nt.name), " = ", to_kotlin_type(bitflags_repr(t)), "\n",
                   "object ", to_shouty_snake_case(nt.name), " {\n">>
              \o Flatten([i \in 1..Len(t.members) |->
                             <<"const val ", to_shouty_snake_case(t.members[i].name), ": ",
                               to_camel_case(nt.name), " = 1 shl ", ToString(i - 1), "\n">>],
                         1, Len(t.members))
              \o <<"}\n">>)
    ELSE record_store_helper(nt, Push(<<>>, IF type_is_safe(t) THEN "" ELSE "__unsafe__") \o <<to_camel_case(nt.name)>>,
            record_load_helper(nt, Push(<<>>, IF type_is_safe(t) THEN "" ELSE "__unsafe__") \o <<to_camel_case(nt.name)>>,
                record_fields(t.members, 1,
                    Ok(Push(Append(Push(s, IF type_is_safe(t) THEN "" ELSE "internal "), "data class "),
                            IF type_is_safe(t) THEN "" ELSE "__unsafe__")
                       \o <<to_camel_case(nt.name), "(\n">>))))

render_enum_like_variant(name, v, s) ==
    Ok(s \o <<"enum class ", to_camel_case(name), " {\n">>
         \o Flatten([i \in 1..Len(v.cases) |->
                        Push(<<>>, IF v.cases[i].name \in {ToString(d) : d \in 0..BigCases} THEN "_" ELSE "")
                        \o <<to_shouty_snake_case(v.cases[i].name), ",\n">>],
                    1, Len(v.cases))
         \o <<"}\n">>)

RECURSIVE variant_classes(_, _, _, _)
\* the loop over the cases of a sealed class, from case i on; r is the text so far
variant_classes(name, cases, i, r) ==
    IF ~r.ok \/ i > Len(cases) THEN r
    ELSE IF cases[i].tref.ref = "None" THEN variant_classes(name, cases, i + 1, r)
    ELSE variant_classes(name, cases, i + 1,
            AndPush(tref_render(cases[i].tref,
                                r.s \o <<"data class ", to_rust_ident(cases[i].name), "(var value: ">>),
                    <<") : ", to_camel_case(name), "()\n">>))

render_variant(name, v, s) ==
    IF is_variant_enum_like(v) THEN render_enum_like_variant(name, v, s)
    ELSE AndPush(variant_classes(name, v.cases, 1, Ok(s \o <<"sealed class ", to_camel_case(name), " {\n">>)),
                 <<"}\n">>)

render_alias(name, dest, s) ==
    tref_render(dest, Push(Append(Push(s, IF tref_is_safe(dest) THEN "" ELSE "internal "), "typealias "),
                           IF tref_is_safe(dest) THEN "" ELSE "__unsafe__")
                      \o <<to_camel_case(name), " = ">>)

render_handle(name, s) == Ok(s \o <<"typealias ", to_camel_case(name), " = Int">>)

named_type_render(nt, s) ==
    IF nt.tref.ref = "Name" THEN render_alias(nt.name, nt.tref, s)
    ELSE CASE nt.tref.ty.kind = "Record" -> render_record(nt, nt.tref.ty, s)
           [] nt.tref.ty.kind = "Handle" -> render_handle(nt.name, s)
           [] nt.tref.ty.kind = "Variant" -> render_variant(nt.name, nt.tref.ty, s)
           [] nt.tref.ty.kind \in {"List", "Pointer", "ConstPointer", "Builtin"} ->
                render_alias(nt.name, nt.tref, s)

(***************************************************************************)
(* heck's to_snake_case on the function names of the document.             *)
(***************************************************************************)
FuncNames == {"fd_sync", "procExit"}

to_snake_case(n) == CASE n = "fd_sync" -> "fd_sync" [] n = "procExit" -> "proc_exit"

(***************************************************************************)
(* The function renderer (render_highlevel, impl Render for InterfaceFunc).*)
(***************************************************************************)
RECURSIVE params_render(_, _, _)
\* the loop over func.params, from parameter i on; r is the text so far
params_render(params, i, r) ==
    IF ~r.ok \/ i > Len(params) THEN r
    ELSE params_render(params, i + 1,
            AndPush(tref_render(params[i].tref, r.s \o <<to_rust_ident(params[i].name), ": ">>), <<",">>))

\* render_highlevel up to the construction of the interpreter
\* the signature up to the parameter list
header_name(f, is_safe, s) ==
    Push(Push(Append(Push(s, IF is_safe THEN "" ELSE "internal "), "fun "),
              IF is_safe THEN "" ELSE "__unsafe__")
            \o <<to_rust_ident(f.name), "(">>,
         IF is_safe THEN "" ELSE "allocator: MemoryAllocator,")

\* the closing of the parameter list ps and the result type
header_results(f, ps) ==
    IF ~ps.ok THEN ps
    ELSE CASE Len(f.results) = 0 -> Ok(Append(ps.s, ")"))
           [] Len(f.results) = 1 -> tref_render(f.results[1].tref, ps.s \o <<")", ": ">>)
           [] OTHER -> Panic(Append(ps.s, ")"))

\* header_open without the scoped allocator block
header_open_unscoped(is_safe, rs) == AndPush(rs, <<" {\n">>)

\* the opening of the body after the signature rs
header_open(is_safe, rs) ==
    AndPush(rs, IF is_safe THEN <<" {\n", "withScopedMemoryAllocator { allocator ->">> ELSE <<" {\n">>)

wrapper_header(f, s) ==
    header_open(func_is_safe(f),
                header_results(f, params_render(f.params, 1, Ok(header_name(f, func_is_safe(f), s)))))

\* render_highlevel after call_wasm returned
wrapper_footer(f, s) ==
    Append(IF func_is_safe(f) THEN Append(s, "}") ELSE s, "}")

(***************************************************************************)
(* The instruction-emission engine (witx's abi): the flattened wasm        *)
(* signature of a function, the number of operands and results of each     *)
(* instruction, and the calls call_wasm makes on the visitor, in order.    *)
(***************************************************************************)
wasm_type(t) ==
    CASE t.kind = "Builtin" /\ t.b \in {"U64", "S64"} -> "I64"
      [] t.kind = "Builtin" /\ t.b = "F32" -> "F32"
      [] t.kind = "Builtin" /\ t.b = "F64" -> "F64"
      [] t.kind = "Record" /\ bitflags_repr(t) = "U64" -> "I64"
      [] t.kind = "Variant" /\ is_variant_enum_like(t) /\ t.tag_repr = "U64" -> "I64"
      [] OTHER -> "I32"

\* the named types a result is returned through by pointer
retptr_types(f) ==
    IF Len(f.results) = 0 THEN <<>>
    ELSE LET t == type_(f.results[1].tref) IN
         IF t.kind = "Variant" /\ ~is_variant_enum_like(t) /\ as_expected(t) # <<>>
            /\ as_expected(t)[1].ref # "None"
         THEN LET ok == type_(as_expected(t)[1])
              IN IF ok.kind = "Record" /\ is_tuple(ok)
                 THEN [i \in 1..Len(ok.members) |-> ok.members[i].tref.name]
                 ELSE <<as_expected(t)[1].name>>
         ELSE <<>>

RECURSIVE wasm_params(_, _)
wasm_params(params, i) ==
    IF i > Len(params) THEN <<>>
    ELSE LET t == type_(params[i].tref)
         IN (IF t.kind = "List" THEN <<"I32", "I32">> ELSE <<wasm_type(t)>>) \o wasm_params(params, i + 1)

wasm_results(f) ==
    IF Len(f.results) = 0 THEN <<>>
    ELSE LET t == type_(f.results[1].tref) IN
         IF t.kind = "Variant" /\ ~is_variant_enum_like(t) /\ as_expected(t) # <<>>
         THEN IF as_expected(t)[2].ref = "None" THEN <<>> ELSE <<"I32">>
         ELSE <<wasm_type(t)>>

\* InterfaceFunc::wasm_signature
wasm_signature(f) ==
    [params |-> wasm_params(f.params, 1) \o [i \in 1..Len(retptr_types(f)) |-> "I32"],
     results |-> wasm_results(f)]

operands_len(inst) ==
    CASE inst.op \in {"GetArg", "ReturnPointerGet", "ReuseReturn", "VariantPayload"} -> 0
      [] inst.op \in {"TupleLift", "CallWasm", "CallInterface"} -> inst.k
      [] inst.op = "Return" -> inst.n
      [] inst.op \in {"Store", "ListFromPointerLength"} -> 2
      [] OTHER -> 1

results_len(inst) ==
    CASE inst.op \in {"Return", "Store"} -> 0
      [] inst.op = "ListPointerLength" -> 2
      [] inst.op \in {"CallWasm", "CallInterface"} -> inst.n
      [] inst.op = "TupleLower" -> inst.k
      [] OTHER -> 1

Op(op) == Inst(op, 0, 0, "")

Call(call, inst, some) == [call |-> call, inst |-> inst, some |-> some]

EmitCall(inst) == Call("emit", inst, FALSE)

\* the instruction that lowers a high-level value of type tref to its wasm operands
lower(tref) ==
    LET t == type_(tref) IN
    CASE t.kind = "Builtin" ->
            Op(CASE t.b = "S8" -> "I32FromS8" [] t.b = "U8" -> "I32FromU8"
                 [] t.b = "S16" -> "I32FromS16" [] t.b = "U16" -> "I32FromU16"
                 [] t.b = "S32" -> "I32FromS32" [] t.b = "U32" -> "I32FromU32"
                 [] t.b = "S64" -> "I64FromS64" [] t.b = "U64" -> "I64FromU64"
                 [] t.b = "Char" -> "I32FromChar"
                 [] t.b = "F32" -> "If32FromF32" [] t.b = "F64" -> "If64FromF64")
      [] t.kind = "Pointer" -> Op("I32FromPointer")
      [] t.kind = "ConstPointer" -> Op("I32FromConstPointer")
      [] t.kind = "Handle" -> Op("I32FromHandle")
      [] t.kind = "Record" ->
            IF bitflags_repr(t) = "U64" THEN Op("I64FromBitflags")
            ELSE IF bitflags_repr(t) # "none" THEN Op("I32FromBitflags")
            ELSE Op("AddrOf")
      [] t.kind = "Variant" -> IF is_variant_enum_like(t) THEN Op("EnumLower") ELSE Op("AddrOf")
      [] t.kind = "List" -> Op("ListPointerLength")

\* the calls that load the value behind return pointer n
load_calls(n, ty) == <<EmitCall(Inst("ReturnPointerGet", n, 0, "")), EmitCall(Inst("Load", 0, 0, ty))>>

RECURSIVE tuple_load_calls(_, _)
tuple_load_calls(members, i) ==
    IF i > Len(members) THEN <<>>
    ELSE load_calls(i - 1, members[i].tref.name) \o tuple_load_calls(members, i + 1)

\* the calls that lift the raw result to a value of type tref
RECURSIVE lift(_, _)
lift(tref, is_return) ==
    LET t == type_(tref) IN
    CASE t.kind = "Builtin" ->
            <<EmitCall(Op(CASE t.b = "S8" -> "S8FromI32" [] t.b = "U8" -> "U8FromI32"
                            [] t.b = "S16" -> "S16FromI32" [] t.b = "U16" -> "U16FromI32"
                            [] t.b = "S32" -> "S32FromI32" [] t.b = "U32" -> "U32FromI32"
                            [] t.b = "S64" -> "S64FromI64" [] t.b = "U64" -> "U64FromI64"
                            [] t.b = "Char" -> "CharFromI32"
                            [] t.b = "F32" -> "F32FromIf32" [] t.b = "F64" -> "F64FromIf64"))>>
      [] t.kind = "Pointer" -> <<EmitCall(Op("PointerFromI32"))>>
      [] t.kind = "ConstPointer" -> <<EmitCall(Op("ConstPointerFromI32"))>>
      [] t.kind = "Handle" -> <<EmitCall(Op("HandleFromI32"))>>
      [] t.kind = "Record" ->
            IF bitflags_repr(t) = "U64" THEN <<EmitCall(Op("BitflagsFromI64"))>>
            ELSE IF bitflags_repr(t) # "none" THEN <<EmitCall(Op("BitflagsFromI32"))>>
            ELSE <<EmitCall(Inst("Load", 0, 0, tref.name))>>
      [] t.kind = "List" -> <<EmitCall(Op("ListFromPointerLength"))>>
      [] t.kind = "Variant" ->
            IF is_variant_enum_like(t) THEN <<EmitCall(Inst("EnumLift", 0, 0, tref.name))>>
            ELSE IF ~is_return \/ as_expected(t) = <<>> THEN <<EmitCall(Inst("Load", 0, 0, tref.name))>>
            ELSE LET ok == as_expected(t)[1]
                     err == as_expected(t)[2]
                     okcalls == IF ok.ref = "None" THEN <<>>
                                ELSE IF type_(ok).kind = "Record" /\ is_tuple(type_(ok))
                                THEN tuple_load_calls(type_(ok).members, 1)
                                        \o <<EmitCall(Inst("TupleLift", Len(type_(ok).members),
                                                           Len(type_(ok).members), ""))>>
                                ELSE load_calls(0, ok.name)
                     errcalls == IF err.ref = "None" THEN <<>>
                                 ELSE <<EmitCall(Op("ReuseReturn"))>> \o lift(err, FALSE)
                 IN <<Call("push_block", Op("none"), FALSE)>> \o okcalls
                    \o <<Call("finish_block", Op("none"), ok.ref # "None")>>
                    \o <<Call("push_block", Op("none"), FALSE)>> \o errcalls
                    \o <<Call("finish_block", Op("none"), err.ref # "None")>>
                    \o <<EmitCall(Op("ResultLift"))>>

RECURSIVE lower_params(_, _)
lower_params(params, i) ==
    IF i > Len(params) THEN <<>>
    ELSE <<EmitCall(Inst("GetArg", i - 1, 0, "")), EmitCall(lower(params[i].tref))>>
         \o lower_params(params, i + 1)

RECURSIVE prep_return_pointer(_, _)
prep_return_pointer(tys, i) ==
    IF i > Len(tys) THEN <<>>
    ELSE <<Call("allocate_space", Inst("none", i - 1, 0, tys[i]), FALSE),
           EmitCall(Inst("ReturnPointerGet", i - 1, 0, ""))>> \o prep_return_pointer(tys, i + 1)

\* InterfaceFunc::call_wasm: the visitor calls for f, in order
call_wasm(f) ==
    LET sig == wasm_signature(f) IN
    lower_params(f.params, 1)
    \o prep_return_pointer(retptr_types(f), 1)
    \o <<EmitCall(Inst("CallWasm", Len(sig.results), Len(sig.params), f.name))>>
    \o (IF Len(f.results) = 0 THEN <<>> ELSE lift(f.results[1].tref, TRUE))
    \o <<EmitCall(Inst("Return", Len(f.results), 0, ""))>>

RECURSIVE raw_params_render(_, _, _)
raw_params_render(params, i, s) ==
    IF i > Len(params) THEN s
    ELSE raw_params_render(params, i + 1,
                           Append(wasm_type_render(params[i], s \o <<"arg", ToString(i - 1), ": ">>), ","))

\* impl Render for InterfaceFunc: the raw import
raw_import_render(f, s) ==
    IF f.name # to_snake_case(f.name) THEN Panic(s)
    ELSE LET sig == wasm_signature(f)
             s1 == s \o <<"@WasmImport(\"wasi_snapshot_preview1\", \"", f.name, "\")\n",
                          "private external fun ", "_raw_wasm__", f.name>>
             s2 == Append(raw_params_render(sig.params, 1, Append(s1, "(")), ")")
         IN IF Len(sig.results) > 1 THEN Panic(s1)
            ELSE IF f.noreturn THEN Ok(Append(s2, ": Unit"))
            ELSE IF Len(sig.results) = 1 THEN Ok(wasm_type_render(sig.results[1], Append(s2, ": ")))
            ELSE Ok(s2)

(***************************************************************************)
(* What the generated Kotlin does when it runs.  An integer of w bytes is  *)
(* its little-endian byte sequence (Kotlin's Byte, Short, Int and Long are *)
(* signed two's-complement), an enumeration constant is its ordinal, a     *)
(* data class instance is a record of its fields.  A run returns ok =      *)
(* FALSE when the code throws.                                             *)
(***************************************************************************)
NumRange == 0..(BigCases + MemSize)

ParseNum(tok) == CHOOSE n \in NumRange : ToString(n) = tok

LoadFuns == {"loadByte", "loadShort", "loadInt", "loadLong"}

fun_width(f) ==
    CASE f \in {"loadByte", "storeByte"} -> 1 [] f \in {"loadShort", "storeShort"} -> 2
      [] f \in {"loadInt", "storeInt"} -> 4 [] f \in {"loadLong", "storeLong"} -> 8

kotlin_width(k) == CASE k = "Byte" -> 1 [] k = "Short" -> 2 [] k = "Int" -> 4 [] k = "Long" -> 8

Pow256 == <<1, 256, 65536, 16777216>>

\* Int.toByte(), toShort(), toInt(), toLong() of a non-negative Int
IntToBytes(i, w) == [k \in 1..w |-> IF k > 4 THEN 0 ELSE (i \div Pow256[k]) % 256]

SignedByte(b) == IF b < 128 THEN b ELSE b - 256

\* toInt() of a Byte, Short, Int or Long given by its bytes
ToInt(bytes) ==
    CASE Len(bytes) = 1 -> SignedByte(bytes[1])
      [] Len(bytes) = 2 -> bytes[1] + 256 * SignedByte(bytes[2])
      [] OTHER -> bytes[1] + 256 * bytes[2] + 65536 * bytes[3] + 16777216 * SignedByte(bytes[4])

DeclOf(camel) == Doc[CHOOSE n \in TypeNames : to_camel_case(n) = camel]

\* the fields of the data class render_record declares, in order
FieldNames(camel) ==
    LET ms == type_(DeclOf(camel).tref).members IN [i \in 1..Len(ms) |-> to_rust_ident(ms[i].name)]

\* the number of constants of the enum class render_enum_like_variant declares
EnumCount(camel) == Len(type_(DeclOf(camel).tref).cases)

RECURSIVE PtrSum(_, _, _)
PtrSum(toks, pos, acc) ==
    IF pos + 1 <= Len(toks) /\ toks[pos] = " + "
    THEN PtrSum(toks, pos + 2, acc + ParseNum(toks[pos + 1]))
    ELSE [addr |-> acc, pos |-> pos]

RECURSIVE RefPath(_, _, _)
RefPath(toks, pos, v) ==
    IF toks[pos] = "." THEN RefPath(toks, pos + 2, v[toks[pos + 1]])
    ELSE IF toks[pos] = ".ordinal.to" THEN [v |-> IntToBytes(v, kotlin_width(toks[pos + 1])), pos |-> pos + 3]
    ELSE [v |-> v, pos |-> pos]

WriteBytes(m, addr, bytes) ==
    [a \in DOMAIN m |-> IF a >= addr /\ a < addr + Len(bytes) THEN bytes[a - addr + 1] ELSE m[a]]

\* run the statements of a generated __store_ body on value x with ptr = base
RECURSIVE ExecStore(_, _, _, _, _)
RECURSIVE StoreAt(_, _, _, _, _, _)
RECURSIVE StoreValue(_, _, _, _, _, _, _)
ExecStore(toks, pos, x, base, m) ==
    IF pos > Len(toks) THEN [ok |-> TRUE, mem |-> m]
    ELSE IF toks[pos] = "\n" THEN ExecStore(toks, pos + 1, x, base, m)
    ELSE IF toks[pos] = "TODO()" THEN [ok |-> FALSE, mem |-> m]
    ELSE StoreAt(toks, pos, PtrSum(toks, pos + 3, base), x, base, m)

\* storeByte(ptr + ..., x. ...) and its like: write the bytes of the value at the address p
StoreAt(toks, pos, p, x, base, m) == StoreValue(toks, pos, p, RefPath(toks, p.pos + 2, x), x, base, m)

StoreValue(toks, pos, p, r, x, base, m) ==
    ExecStore(toks, r.pos + 1, x, base, WriteBytes(m, p.addr, [k \in 1..fun_width(toks[pos]) |-> r.v[k]]))

\* evaluate a generated load expression with ptr = base
RECURSIVE EvalLoad(_, _, _, _)
RECURSIVE EvalArgs(_, _, _, _, _)
RECURSIVE EvalArms(_, _, _, _, _, _)
RECURSIVE NextArg(_, _, _, _, _)
RECURSIVE NextArm(_, _, _, _, _, _, _)
RECURSIVE WhenOn(_, _, _, _)

\* the constructor arguments from pos on; acc holds the arguments evaluated so far
EvalArgs(toks, pos, base, m, acc) ==
    IF toks[pos] = ")" THEN [ok |-> \A i \in 1..Len(acc) : acc[i].ok, v |-> acc, pos |-> pos + 1]
    ELSE NextArg(toks, EvalLoad(toks, pos, base, m), base, m, acc)

NextArg(toks, r, base, m, acc) == EvalArgs(toks, r.pos + 1, base, m, Append(acc, r))

\* the arms of a when from pos on; found holds the arm selected by tag, if met
EvalArms(toks, pos, base, m, tag, found) ==
    IF toks[pos] = "else -> error(\"Invalid variant\")"
    THEN IF found = <<>> THEN [ok |-> FALSE, v |-> <<>>, pos |-> pos + 2]
         ELSE [ok |-> found[1].ok, v |-> found[1].v, pos |-> pos + 2]
    ELSE NextArm(toks, pos, EvalLoad(toks, pos + 6, base, m), base, m, tag, found)

NextArm(toks, pos, r, base, m, tag, found) ==
    EvalArms(toks, r.pos + 2, base, m, tag,
             IF ParseNum(toks[pos]) = tag
             THEN <<[ok |-> r.ok, v |-> [case |-> toks[pos + 4], value |-> r.v]]>>
             ELSE found)

\* loadByte(ptr + ...) and its like: the bytes at the address p
LoadAt(tok, p, m) == [ok |-> TRUE, v |-> [k \in 1..fun_width(tok) |-> m[p.addr + k - 1]], pos |-> p.pos + 1]

\* E.values()[t.toInt()]: throws when the index is out of bounds
EnumAt(tok, t) ==
    [ok |-> ToInt(t.v) >= 0 /\ ToInt(t.v) < EnumCount(tok), v |-> ToInt(t.v), pos |-> t.pos + 1]

\* the data class instance built from the arguments a
Construct(fs, a) ==
    IF a.ok
    THEN [ok |-> TRUE, pos |-> a.pos,
          v |-> [f \in {fs[i] : i \in 1..Len(fs)} |-> a.v[CHOOSE i \in 1..Len(fs) : fs[i] = f].v]]
    ELSE [ok |-> FALSE, v |-> <<>>, pos |-> a.pos]

WhenOn(toks, t, base, m) == EvalArms(toks, t.pos + 1, base, m, ToInt(t.v), <<>>)

EvalLoad(toks, pos, base, m) ==
    CASE toks[pos] \in LoadFuns -> LoadAt(toks[pos], PtrSum(toks, pos + 3, base), m)
      [] toks[pos] = "when (" -> WhenOn(toks, EvalLoad(toks, pos + 1, base, m), base, m)
      [] toks[pos] = "__unsafe__" -> EvalLoad(toks, pos + 1, base, m)
      [] OTHER ->
            IF toks[pos + 1] = ".values()["
            THEN EnumAt(toks[pos], EvalLoad(toks, pos + 2, base, m))
            ELSE Construct(FieldNames(toks[pos]), EvalArgs(toks, pos + 2, base, m, <<>>))

(***************************************************************************)
(* The interface functions of the document.                                *)
(***************************************************************************)
Bases == {0, 8}

NoGen == [ok |-> FALSE, s |-> <<>>]

FreshMem == [a \in 0..(MemSize - 1) |-> 170]

Expected(ok, err) == Variant("U8", <<Member("ok", ok), Member("err", err)>>)

Tuple2(a, b) == Record("Tuple", "none", <<Member("0", a), Member("1", b)>>)

ParamChoices ==
    { Member("in", Name("fd")),
      Member("buf", Value(List(Value(Builtin("U8"))))),
      Member("buf_len", Name("size")),
      Member("how", Name("level")),
      Member("iov", Value(ConstPointer(Name("iovec")))),
      Member("st", Name("stat")),
      Member("flags", Name("rights")),
      Member("off", Name("filesize")) }

ParamLists ==
    UNION { {ps \in [1..n -> ParamChoices] : \A i, j \in 1..n : i # j => ps[i].name # ps[j].name}
            : n \in 0..MaxParams }

ResultLists ==
    { <<>>,
      <<Member("r", Value(Builtin("U8")))>>,
      <<Member("r", Name("size"))>>,
      <<Member("r", Value(Expected(Name("size"), Name("level"))))>>,
      <<Member("r", Value(Expected(NoTref, Name("level"))))>>,
      <<Member("r", Value(Expected(Value(Tuple2(Name("size"), Name("filesize"))), Name("level"))))>>,
      <<Member("r", Value(Expected(Name("stat"), Name("level"))))>>,
      <<Member("r", Name("size")), Member("r2", Name("size"))>> }

Func(name, params, results, noreturn) ==
    [name |-> name, params |-> params, results |-> results, noreturn |-> noreturn]

FuncSet ==
    {Func(n, ps, rs, FALSE) : n \in FuncNames, ps \in ParamLists, rs \in ResultLists}
    \cup {Func(n, ps, <<>>, TRUE) : n \in FuncNames, ps \in ParamLists}

NoFunc == Func("fd_sync", <<>>, <<>>, FALSE)

FreeFunc == Func("fd_sync", <<Member("in", Name("fd")), Member("buf_len", Name("size"))>>, <<>>, FALSE)

(***************************************************************************)
(* One call of the engine on the visitor.  The engine's emit hands the     *)
(* instruction its operands from the top of the stack, checks the number   *)
(* of results pushed, and moves them to the stack; finish_block is given   *)
(* the top of the stack when the block has a value.                        *)
(***************************************************************************)
NoCall == [call |-> "none", inst |-> Op("none"), operands |-> <<>>, results |-> <<>>,
           ok |-> TRUE, src |-> <<>>, blocks |-> <<>>, block_storage |-> <<>>, stack |-> <<>>,
           calls |-> 0]

Record_(c, operands, results, ok) ==
    [call |-> c.call, inst |-> c.inst, operands |-> operands, results |-> results, ok |-> ok,
     src |-> src, blocks |-> blocks, block_storage |-> block_storage, stack |-> stack,
     calls |-> last.calls + 1]

VisitPushBlock(c) ==
    LET r == push_block(src, block_storage)
    IN /\ src' = r.src /\ block_storage' = r.block_storage
       /\ last' = Record_(c, <<>>, <<>>, TRUE)
       /\ aborted' = FALSE
       /\ UNCHANGED <<blocks, stack>>

VisitFinishBlock(c) ==
    IF c.some /\ stack = <<>>
    THEN /\ aborted' = TRUE /\ last' = Record_(c, <<>>, <<>>, FALSE)
         /\ UNCHANGED <<src, block_storage, blocks, stack>>
    ELSE LET operand == IF c.some THEN <<Last(stack)>> ELSE <<>>
             r == finish_block(operand, src, block_storage, blocks)
         IN /\ src' = r.src /\ block_storage' = r.block_storage /\ blocks' = r.blocks
            /\ stack' = IF c.some THEN SubSeq(stack, 1, Len(stack) - 1) ELSE stack
            /\ last' = Record_(c, operand, <<>>, r.ok)
            /\ aborted' = ~r.ok

VisitAllocateSpace(c) ==
    /\ src' = allocate_space(c.inst.n, c.inst.name, src)
    /\ last' = Record_(c, <<>>, <<>>, TRUE)
    /\ aborted' = FALSE
    /\ UNCHANGED <<block_storage, blocks, stack>>

VisitEmit(c) ==
    LET k == operands_len(c.inst) IN
    IF k > Len(stack)
    THEN /\ aborted' = TRUE /\ last' = Record_(c, <<>>, <<>>, FALSE)
         /\ UNCHANGED <<src, block_storage, blocks, stack>>
    ELSE LET operands == SubSeq(stack, Len(stack) - k + 1, Len(stack))
             r == emit(c.inst, operands, func.params, src, blocks)
         IN /\ src' = r.src /\ blocks' = r.blocks
            /\ stack' = SubSeq(stack, 1, Len(stack) - k) \o r.results
            /\ last' = Record_(c, operands, r.results, r.ok)
            /\ aborted' = (~r.ok \/ Len(r.results) # results_len(c.inst))
            /\ UNCHANGED block_storage

VisitorCall(c) ==
    CASE c.call = "push_block" -> VisitPushBlock(c)
      [] c.call = "finish_block" -> VisitFinishBlock(c)
      [] c.call = "allocate_space" -> VisitAllocateSpace(c)
      [] c.call = "emit" -> VisitEmit(c)

(***************************************************************************)
(* The free driver: the visitor of one function, called in any order the   *)
(* engine's contract allows, with any instruction.                         *)
(***************************************************************************)
FreeInsts ==
    {Inst("GetArg", n, 0, "") : n \in 0..1}
    \cup {Op(o) : o \in ToLong \cup ToInt32 \cup PassThrough \cup ToByte \cup ToShort
                        \cup IdentityLifts \cup (Unsupported \ {"TupleLower", "CallInterface"})
                        \cup {"EnumLower", "ListPointerLength", "ReuseReturn", "ResultLift"}}
    \cup {Inst("ReturnPointerGet", 0, 0, ""), Inst("EnumLift", 0, 0, "level"),
          Inst("TupleLift", 2, 2, ""), Inst("TupleLower", 0, 2, ""),
          Inst("CallInterface", 0, 0, "fd_sync")}
    \cup {Inst("Load", 0, 0, ty) : ty \in {"size", "stat", "small", "sizealias"}}
    \cup {Inst("CallWasm", n, k, "fd_sync") : n \in 0..1, k \in 0..MaxCalls}
    \cup {Inst("Return", n, 0, "") : n \in 0..2}

InitEmit ==
    /\ mode = "emit"
    /\ func = FreeFunc
    /\ src = wrapper_header(FreeFunc, <<>>).s
    /\ block_storage = <<>> /\ blocks = <<>> /\ stack = <<>>
    /\ aborted = FALSE /\ last = NoCall /\ pc = "body"
    /\ stream = <<>> /\ rawsrc = <<>>
    /\ memty = "size" /\ loadgen = NoGen /\ storegen = NoGen
    /\ val = <<>> /\ loaded = <<>> /\ mem = FreshMem /\ ptrbase = 0

FreeRunning == mode = "emit" /\ pc = "body" /\ ~aborted /\ last.calls < MaxCalls

Emit ==
    /\ FreeRunning
    /\ \E inst \in FreeInsts :
          /\ operands_len(inst) <= Len(stack)
          /\ inst.op = "CallWasm" => inst.k = Len(stack)
          /\ VisitorCall(EmitCall(inst))
          /\ pc' = IF inst.op = "Return" /\ ~aborted' THEN "returned" ELSE pc
    /\ UNCHANGED <<mode, func, stream, rawsrc, memty, loadgen, storegen, val, mem, loaded, ptrbase>>

PushBlock ==
    /\ FreeRunning
    /\ VisitorCall(Call("push_block", Op("none"), FALSE))
    /\ UNCHANGED <<mode, func, pc, stream, rawsrc, memty, loadgen, storegen, val, mem, loaded, ptrbase>>

FinishBlock ==
    /\ FreeRunning
    /\ block_storage # <<>>
    /\ \E some \in BOOLEAN :
          /\ some => stack # <<>>
          /\ VisitorCall(Call("finish_block", Op("none"), some))
    /\ UNCHANGED <<mode, func, pc, stream, rawsrc, memty, loadgen, storegen, val, mem, loaded, ptrbase>>

AllocateSpace ==
    /\ FreeRunning
    /\ \E ty \in {"size", "stat"} : VisitorCall(Call("allocate_space", Inst("none", 0, 0, ty), FALSE))
    /\ UNCHANGED <<mode, func, pc, stream, rawsrc, memty, loadgen, storegen, val, mem, loaded, ptrbase>>

NextEmit == Emit \/ PushBlock \/ FinishBlock \/ AllocateSpace

(***************************************************************************)
(* The block driver: the visitor called with blocks nested to any depth,   *)
(* statements written and operands produced inside and outside of them.   *)
(***************************************************************************)
BlockCalls ==
    {Call("push_block", Op("none"), FALSE)}
    \cup {Call("finish_block", Op("none"), some) : some \in BOOLEAN}
    \cup {Call("allocate_space", Inst("none", n, 0, "size"), FALSE) : n \in 0..1}
    \cup {EmitCall(Inst("GetArg", 0, 0, ""))}

InitBlock ==
    /\ mode = "block"
    /\ func = FreeFunc
    /\ src = wrapper_header(FreeFunc, <<>>).s
    /\ block_storage = <<>> /\ blocks = <<>> /\ stack = <<>>
    /\ aborted = FALSE /\ last = NoCall /\ pc = "body"
    /\ stream = <<>> /\ rawsrc = <<>>
    /\ memty = "size" /\ loadgen = NoGen /\ storegen = NoGen
    /\ val = <<>> /\ loaded = <<>> /\ mem = FreshMem /\ ptrbase = 0

BlockCall ==
    /\ mode = "block" /\ ~aborted /\ last.calls < MaxBlockCalls
    /\ \E c \in BlockCalls :
          /\ c.call = "finish_block" => (block_storage # <<>> /\ (c.some => stack # <<>>))
          /\ VisitorCall(c)
    /\ UNCHANGED <<mode, func, pc, stream, rawsrc, memty, loadgen, storegen, val, mem, loaded, ptrbase>>

(***************************************************************************)
(* The function driver: Module::render on one function: the wrapper        *)
(* (render_highlevel, which runs call_wasm on a fresh interpreter), then   *)
(* the raw import.                                                         *)
(***************************************************************************)
InitFunc ==
    /\ mode = "func"
    /\ func \in FuncSet
    /\ src = <<>> /\ block_storage = <<>> /\ blocks = <<>> /\ stack = <<>>
    /\ aborted = FALSE /\ last = NoCall /\ pc = "start"
    /\ stream = <<>> /\ rawsrc = <<>>
    /\ memty = "size" /\ loadgen = NoGen /\ storegen = NoGen
    /\ val = <<>> /\ loaded = <<>> /\ mem = FreshMem /\ ptrbase = 0

RenderHeader ==
    /\ mode = "func" /\ pc = "start"
    /\ LET r == wrapper_header(func, src)
       IN /\ src' = r.s
          /\ aborted' = ~r.ok
          /\ pc' = IF r.ok THEN "body" ELSE "panicked"
          /\ stream' = IF r.ok THEN call_wasm(func) ELSE <<>>
    /\ block_storage' = <<>> /\ blocks' = <<>>
    /\ UNCHANGED <<mode, stack, last, func, rawsrc, memty, loadgen, storegen, val, mem, loaded, ptrbase>>

Step ==
    /\ mode = "func" /\ pc = "body" /\ stream # <<>>
    /\ VisitorCall(Head(stream))
    /\ stream' = Tail(stream)
    /\ pc' = IF aborted' THEN "panicked" ELSE pc
    /\ UNCHANGED <<mode, func, rawsrc, memty, loadgen, storegen, val, mem, loaded, ptrbase>>

RenderFooter ==
    /\ mode = "func" /\ pc = "body" /\ stream = <<>>
    /\ src' = wrapper_footer(func, src)
    /\ pc' = "wrapped"
    /\ UNCHANGED <<mode, block_storage, blocks, stack, aborted, last, func, stream, rawsrc,
                   memty, loadgen, storegen, val, mem, loaded, ptrbase>>

RenderRaw ==
    /\ mode = "func" /\ pc = "wrapped"
    /\ LET r == raw_import_render(func, <<>>)
       IN /\ rawsrc' = r.s
          /\ aborted' = ~r.ok
          /\ pc' = IF r.ok THEN "done" ELSE "panicked"
    /\ UNCHANGED <<mode, src, block_storage, blocks, stack, last, func, stream,
                   memty, loadgen, storegen, val, mem, loaded, ptrbase>>

NextFunc == RenderHeader \/ Step \/ RenderFooter \/ RenderRaw

(***************************************************************************)
(* Representative values of a type: zero, all bits set, and a mid-range    *)
(* pattern per integer; the first, second, last and the signed-Byte        *)
(* boundary ordinals per enumeration.                                      *)
(***************************************************************************)
ScalarValues(w) == {[k \in 1..w |-> 0], [k \in 1..w |-> 255], [k \in 1..w |-> 17 * k]}

RECURSIVE ValuesOf(_)
RECURSIVE MemberValues(_, _)

MemberValues(members, i) ==
    IF i = 0 THEN {<<>>}
    ELSE {Append(p, v) : p \in MemberValues(members, i - 1), v \in ValuesOf(type_(members[i].tref))}

ValuesOf(t) ==
    CASE t.kind = "Builtin" -> ScalarValues(builtin_size(t.b))
      [] t.kind \in {"Handle", "Pointer", "ConstPointer"} -> ScalarValues(4)
      [] t.kind = "List" -> {<<>>}
      [] t.kind = "Record" ->
            IF bitflags_repr(t) # "none" THEN ScalarValues(builtin_size(t.repr))
            ELSE {[f \in {to_rust_ident(t.members[i].name) : i \in 1..Len(t.members)} |->
                      tup[CHOOSE i \in 1..Len(t.members) : to_rust_ident(t.members[i].name) = f]]
                  : tup \in MemberValues(t.members, Len(t.members))}
      [] t.kind = "Variant" ->
            IF is_variant_enum_like(t)
            THEN {0, 1, 127, 128, Len(t.cases) - 1} \cap (0..(Len(t.cases) - 1))
            ELSE UNION {IF t.cases[i].tref.ref = "None"
                        THEN {[case |-> t.cases[i].name, value |-> <<>>]}
                        ELSE {[case |-> t.cases[i].name, value |-> v] : v \in ValuesOf(type_(t.cases[i].tref))}
                        : i \in 1..Len(t.cases)}

(***************************************************************************)
(* The memory driver: generate the load and the store code of a named      *)
(* type, run the store on a value, run the load on the memory it left.     *)
(***************************************************************************)
InitMem ==
    /\ mode = "mem"
    /\ memty \in TypeNames
    /\ ptrbase \in Bases
    /\ pc = "start"
    /\ loadgen = NoGen /\ storegen = NoGen
    /\ val = <<>> /\ loaded = <<>> /\ mem = FreshMem
    /\ aborted = FALSE
    /\ src = <<>> /\ block_storage = <<>> /\ blocks = <<>> /\ stack = <<>>
    /\ last = NoCall /\ func = NoFunc /\ stream = <<>> /\ rawsrc = <<>>

GenLoad ==
    /\ mode = "mem" /\ pc = "start"
    /\ loadgen' = load_type(Doc[memty], <<"ptr">>, <<>>)
    /\ aborted' = ~loadgen'.ok
    /\ pc' = "load_done"
    /\ UNCHANGED <<mode, src, block_storage, blocks, stack, last, func, stream, rawsrc,
                   memty, storegen, val, mem, loaded, ptrbase>>

GenStore ==
    /\ mode = "mem" /\ pc = "load_done"
    /\ storegen' = store_type(Doc[memty], <<"x">>, <<"ptr">>, <<>>)
    /\ aborted' = (aborted \/ ~storegen'.ok)
    /\ pc' = "gen_done"
    /\ UNCHANGED <<mode, src, block_storage, blocks, stack, last, func, stream, rawsrc,
                   memty, loadgen, val, mem, loaded, ptrbase>>

RunStore ==
    /\ mode = "mem" /\ pc = "gen_done" /\ loadgen.ok /\ storegen.ok
    /\ \E v \in ValuesOf(type_(Doc[memty].tref)) :
          LET r == ExecStore(storegen.s, 1, v, ptrbase, mem)
          IN /\ val' = v
             /\ mem' = r.mem
             /\ pc' = IF r.ok THEN "stored" ELSE "store_threw"
    /\ UNCHANGED <<mode, src, block_storage, blocks, stack, aborted, last, func, stream, rawsrc,
                   memty, loadgen, storegen, loaded, ptrbase>>

RunLoad ==
    /\ mode = "mem" /\ pc = "stored"
    /\ LET r == EvalLoad(loadgen.s, 1, ptrbase, mem)
       IN /\ loaded' = IF r.ok THEN r.v ELSE <<>>
          /\ pc' = IF r.ok THEN "loaded" ELSE "load_threw"
    /\ UNCHANGED <<mode, src, block_storage, blocks, stack, aborted, last, func, stream, rawsrc,
                   memty, loadgen, storegen, val, mem, ptrbase>>

\* generate's loop body: the declaration of the named type, then a line break
RenderType ==
    /\ mode = "mem" /\ pc = "start"
    /\ LET r == AndPush(named_type_render(Doc[memty], src), <<"\n">>)
       IN /\ src' = r.s
          /\ aborted' = ~r.ok
    /\ pc' = "declared"
    /\ UNCHANGED <<mode, block_storage, blocks, stack, last, func, stream, rawsrc,
                   memty, loadgen, storegen, val, mem, loaded, ptrbase>>

NextMem == RenderType \/ GenLoad \/ GenStore \/ RunStore \/ RunLoad

Init == InitEmit \/ InitBlock \/ InitFunc \/ InitMem

Next == NextEmit \/ BlockCall \/ NextFunc \/ NextMem

Spec == Init /\ [][Next]_vars

(***************************************************************************)
(* Properties.                                                             *)
(***************************************************************************)
\* token tok occurs in text s
Occurs(s, tok) == \E i \in 1..Len(s) : s[i] = tok

\* the number of occurrences of tok in s
Count(s, tok) == Cardinality({i \in 1..Len(s) : s[i] = tok})

\* the first position of tok in s, 0 when it does not occur
IndexOf(s, tok) ==
    IF Occurs(s, tok) THEN CHOOSE i \in 1..Len(s) : s[i] = tok /\ \A j \in 1..(i - 1) : s[j] # tok ELSE 0

\* the tokens of s from position a to position b of s, those outside s left out
Sub(s, a, b) == IF a > b \/ a < 1 \/ b > Len(s) THEN <<>> ELSE SubSeq(s, a, b)

Scoped == "withScopedMemoryAllocator { allocator ->"

\* the tokens only the instruction interpreter writes
BodyTokens == {"return ", "val ret = ", "_raw_wasm__", "throw WasiError(", "val rp"}

Positions(s, toks) == {i \in 1..Len(s) : s[i] \in toks}

\* the last visitor call was emit and the interpreter returned from it
EmitReturned == last.call = "emit" /\ last.ok

\* the number of results the interface contract gives an instruction
ClaimedResults(inst) ==
    CASE inst.op = "Return" -> 0
      [] inst.op = "ListPointerLength" -> 2
      [] inst.op = "CallWasm" -> IF inst.n > 0 THEN 1 ELSE 0
      [] OTHER -> 1

\* the interpreter, not the header or the raw import, ended the run
BodyAborted ==
    /\ mode = "func" /\ pc = "panicked" /\ last.call # "none"
    /\ (~last.ok \/ Len(last.results) # results_len(last.inst))

\* C1: every instruction emit handles without aborting leaves exactly the
\* number of results the instruction specifies (two for ListPointerLength,
\* one for CallWasm exactly when the raw function has a result, none for
\* Return, one for every other instruction) and is given exactly its
\* operands; the single result of an identity lift is its operand unchanged.
C1_EmitResultCounts ==
    EmitReturned =>
        /\ Len(last.results) = ClaimedResults(last.inst)
        /\ Len(last.operands) = operands_len(last.inst)
        /\ last.inst.op \in IdentityLifts => last.results = last.operands

\* C2: ResultLift removes exactly the two most recently completed blocks
\* (the last is the error block, the one before it the success block) and
\* pushes exactly one conditional over the discriminant operand whose
\* "== 0" branch is the success block and whose else branch throws a
\* WasiError built from the error block; it writes nothing to the buffer.
C2_ResultLift ==
    (EmitReturned /\ last.inst.op = "ResultLift") =>
        /\ Len(last.blocks) >= 2
        /\ blocks = SubSeq(last.blocks, 1, Len(last.blocks) - 2)
        /\ last.results =
              << <<"if (">> \o last.operands[1] \o <<" == 0) {\n">>
                 \o last.blocks[Len(last.blocks) - 1]
                 \o <<"} else {", "throw WasiError(">>
                 \o last.blocks[Len(last.blocks)]
                 \o <<")\n", "}\n">> >>
        /\ src = last.src
        /\ block_storage = last.block_storage

\* C2 witness: a ResultLift that returned, over two different non-empty blocks
C2_Witness ==
    /\ EmitReturned /\ last.inst.op = "ResultLift"
    /\ Len(last.blocks) >= 2
    /\ last.blocks[Len(last.blocks)] # last.blocks[Len(last.blocks) - 1]
    /\ last.blocks[Len(last.blocks)] # <<>>
    /\ last.blocks[Len(last.blocks) - 1] # <<>>

\* the named types that are records (bitflags or not) or enum-like variants
RoundTripTypes ==
    {n \in TypeNames :
        /\ Doc[n].tref.ref = "Value"
        /\ \/ Doc[n].tref.ty.kind = "Record" /\ ~is_tuple(Doc[n].tref.ty)
           \/ Doc[n].tref.ty.kind = "Variant" /\ is_variant_enum_like(Doc[n].tref.ty)}

\* C3: for every named record, bitflags record and enum-like variant, load
\* and store code is generated, and running the generated store and then the
\* generated load at the same base offset gives back the value stored.
C3_StoreLoadRoundTrip ==
    (mode = "mem" /\ memty \in RoundTripTypes) =>
        /\ pc = "gen_done" => loadgen.ok /\ storegen.ok
        /\ pc \notin {"store_threw", "load_threw"}
        /\ pc = "loaded" => loaded = val

\* the named enum-like variants
EnumTypes ==
    {n \in TypeNames :
        /\ Doc[n].tref.ref = "Value" /\ Doc[n].tref.ty.kind = "Variant"
        /\ is_variant_enum_like(Doc[n].tref.ty)}

\* C4: for every enum-like variant and every case index i, the generated
\* store writes i at the width of the tag, and the generated load of the
\* stored tag yields case i, also for i >= 128 under an 8-bit tag.
C4_EnumTagRoundTrip ==
    (mode = "mem" /\ memty \in EnumTypes) =>
        /\ pc \in {"stored", "loaded", "load_threw"} =>
              \A k \in 1..builtin_size(Doc[memty].tref.ty.tag_repr) :
                  mem[ptrbase + k - 1] = IntToBytes(val, builtin_size(Doc[memty].tref.ty.tag_repr))[k]
        /\ pc # "load_threw"
        /\ pc = "loaded" => loaded = val

\* the named types that are a builtin scalar
BuiltinNames == {n \in TypeNames : Doc[n].tref.ref = "Value" /\ Doc[n].tref.ty.kind = "Builtin"}

\* C5: for every builtin scalar type load generation and store generation
\* each succeed with exactly one read or write primitive of the type's width
\* at the given offset; the record {a: u8, b: u32} gets load and store code
\* for a at offset 0 and b at offset 4.
C5_BuiltinLoadStore ==
    /\ (mode = "mem" /\ memty \in BuiltinNames /\ pc = "load_done") =>
          /\ loadgen.ok
          /\ Len(loadgen.s) = 4 /\ loadgen.s[1] \in LoadFuns
          /\ fun_width(loadgen.s[1]) = builtin_size(Doc[memty].tref.ty.b)
          /\ Sub(loadgen.s, 2, 4) = <<"(", "ptr", ")">>
    /\ (mode = "mem" /\ memty \in BuiltinNames /\ pc = "gen_done") =>
          /\ storegen.ok
          /\ Len(storegen.s) = 6
          /\ fun_width(storegen.s[1]) = builtin_size(Doc[memty].tref.ty.b)
          /\ Sub(storegen.s, 2, 6) = <<"(", "ptr", ", ", "x", ")">>
    /\ (mode = "mem" /\ memty = "tagged" /\ pc = "gen_done") =>
          /\ loadgen.ok /\ storegen.ok
          /\ loadgen.s = <<"Tagged", "(", "loadByte", "(", "ptr", " + ", "0", ")", ",",
                           "loadInt", "(", "ptr", " + ", "4", ")", ",", ")">>
          /\ storegen.s = <<"storeByte", "(", "ptr", " + ", "0", ", ", "x", ".", "a", ")", "\n",
                            "storeInt", "(", "ptr", " + ", "4", ", ", "x", ".", "b", ")", "\n">>

\* a function with one list parameter and one scalar result
ListScalarFunc ==
    /\ mode = "func"
    /\ Len(func.params) = 1 /\ type_(func.params[1].tref).kind = "List"
    /\ Len(func.results) = 1 /\ type_(func.results[1].tref).kind = "Builtin"

\* C6: ListPointerLength turns its one operand into two results, the address
\* of the copy in linear memory and then the element count; for a function
\* with one list parameter and one scalar result the interpreter runs to the
\* end and writes one raw call with the two arguments pointer and length,
\* bound to ret, followed by a return of the scalar.
C6_ListCallReturn ==
    /\ (EmitReturned /\ last.inst.op = "ListPointerLength") =>
          last.results = << <<"allocator.writeToLinearMemory(">> \o last.operands[1] \o <<")">>,
                            Append(last.operands[1], ".size") >>
    /\ ListScalarFunc =>
          /\ ~BodyAborted
          /\ pc \in {"wrapped", "done"} =>
                /\ Count(src, "_raw_wasm__") = 1
                /\ Count(src, "return ") = 1
                /\ src[IndexOf(src, "_raw_wasm__") - 1] = "val ret = "
                /\ Sub(src, IndexOf(src, "_raw_wasm__") + 1, IndexOf(src, "_raw_wasm__") + 9) =
                      <<func.name, "(", "allocator.writeToLinearMemory(",
                        to_rust_ident(func.params[1].name), ")", ", ",
                        to_rust_ident(func.params[1].name), ".size", ");\n">>
                /\ Sub(src, IndexOf(src, "_raw_wasm__") + 10, IndexOf(src, "_raw_wasm__") + 11) =
                      <<"return ", "ret">>

\* the named variants with at least one case that carries a payload
GeneralVariants ==
    {n \in TypeNames :
        /\ Doc[n].tref.ref = "Value" /\ Doc[n].tref.ty.kind = "Variant"
        /\ ~is_variant_enum_like(Doc[n].tref.ty)}

\* C7: generating the store of a named variant with a payload-bearing case
\* aborts generation: the generator panics and no store text is written.
C7_GeneralVariantStoreAborts ==
    (mode = "mem" /\ memty \in GeneralVariants /\ pc = "gen_done") =>
        /\ ~storegen.ok
        /\ storegen.s = <<>>
        /\ aborted

\* the instructions the interpreter does not support
NotSupported(inst) == inst.op \in Unsupported \/ (inst.op = "Return" /\ inst.n > 1)

\* C8: on an unsupported instruction (AddrOf, Store, ListFromPointerLength,
\* CallInterface, ResultLower, TupleLower, VariantPayload, BitflagsFromI32,
\* BitflagsFromI64, CharFromI32, Return of more than one value) emit aborts
\* generation, appends nothing to the output buffer, pushes no result and
\* leaves the block stacks as they were.
C8_UnsupportedAborts ==
    (last.call = "emit" /\ NotSupported(last.inst)) =>
        /\ ~last.ok
        /\ aborted
        /\ src = last.src
        /\ last.results = <<>>
        /\ blocks = last.blocks
        /\ block_storage = last.block_storage

\* C8 witness: an unsupported instruction was given its operands, with text
\* already in the buffer
C8_Witness ==
    /\ last.call = "emit" /\ last.inst.op = "Store"
    /\ Len(last.operands) = 2
    /\ last.src # <<>>

\* C9: CallWasm appends a call of "_raw_wasm__" followed by the function
\* name with all operands, in stack order, as its arguments; exactly when
\* the raw function has a result the call is bound to ret and ret is the one
\* result pushed; the raw import of the function declares the same
\* identifier, with a result type exactly when the call is bound.
C9_CallWasm ==
    /\ (EmitReturned /\ last.inst.op = "CallWasm") =>
          /\ src = last.src
                   \o (IF last.inst.n > 0 THEN <<"val ret = ">> ELSE <<>>)
                   \o <<"_raw_wasm__", func.name, "(">>
                   \o Join(last.operands, ", ") \o <<");\n">>
          /\ last.results = (IF last.inst.n > 0 THEN <<<<"ret">>>> ELSE <<>>)
          /\ mode = "func" =>
                /\ last.inst.n = Len(wasm_signature(func).results)
                /\ Len(last.operands) = Len(wasm_signature(func).params)
                /\ last.operands = SubSeq(last.stack, 1, Len(last.stack))
    /\ (mode = "func" /\ pc = "done") =>
          /\ Count(src, "_raw_wasm__") = 1 /\ Count(rawsrc, "_raw_wasm__") = 1
          /\ src[IndexOf(src, "_raw_wasm__") + 1] = rawsrc[IndexOf(rawsrc, "_raw_wasm__") + 1]
          /\ src[IndexOf(src, "_raw_wasm__") + 1] = func.name
          /\ rawsrc[IndexOf(rawsrc, "_raw_wasm__") - 1] = "private external fun "
          /\ Occurs(src, "val ret = ") <=> Last(rawsrc) \in {"Int", "Long", "Float", "Double"}

\* C9 witness: a function with two parameters and a result was rendered,
\* wrapper and raw import
C9_Witness ==
    /\ mode = "func" /\ pc = "done"
    /\ Len(func.params) = 2
    /\ Occurs(src, "val ret = ")

\* C10: a safe function gets a public wrapper without the "__unsafe__"
\* prefix and without an allocator parameter, whose whole interpreted body,
\* returns and result-lift throws included, lies inside one scoped allocator
\* block opened before the first interpreted statement and closed after the
\* last; an unsafe function gets an internal wrapper named with the
\* "__unsafe__" prefix that takes the allocator as its first parameter and
\* has no scoped allocator block.
C10_WrapperShape ==
    (mode = "func" /\ pc \in {"wrapped", "done"}) =>
        IF func_is_safe(func)
        THEN /\ Sub(src, 1, 3) = <<"fun ", to_rust_ident(func.name), "(">>
             /\ ~Occurs(src, "internal ") /\ ~Occurs(src, "__unsafe__")
             /\ ~Occurs(src, "allocator: MemoryAllocator,")
             /\ Count(src, Scoped) = 1
             /\ src[IndexOf(src, Scoped) - 1] = " {\n"
             /\ Sub(src, Len(src) - 1, Len(src)) = <<"}", "}">>
             /\ \A i \in Positions(src, BodyTokens) : IndexOf(src, Scoped) < i /\ i < Len(src) - 1
        ELSE /\ Sub(src, 1, 6) = <<"internal ", "fun ", "__unsafe__", to_rust_ident(func.name), "(",
                                   "allocator: MemoryAllocator,">>
             /\ ~Occurs(src, Scoped)
             /\ src[Len(src)] = "}"
             /\ Count(src, " {\n") = 1
             /\ \A i \in Positions(src, BodyTokens) : IndexOf(src, " {\n") < i /\ i < Len(src)

\* C10 witness: the wrapper of a safe function whose body throws from a
\* result lift
C10_Witness ==
    /\ mode = "func" /\ pc = "done"
    /\ func_is_safe(func)
    /\ Occurs(src, "throw WasiError(")
    /\ Occurs(src, "return ")


(***************************************************************************)
(* C11.  What the claim calls unsafe, written from its words: the type     *)
(* holds a Pointer or ConstPointer, reached through record members, the    *)
(* payloads of variant cases, list elements and named references.          *)
(***************************************************************************)
RECURSIVE ContainsPointer(_)
ContainsPointer(t) ==
    CASE t.kind \in {"Pointer", "ConstPointer"} -> TRUE
      [] t.kind = "Record" -> \E i \in 1..Len(t.members) : ContainsPointer(type_(t.members[i].tref))
      [] t.kind = "Variant" -> \E i \in 1..Len(t.cases) :
                                  /\ t.cases[i].tref.ref # "None"
                                  /\ ContainsPointer(type_(t.cases[i].tref))
      [] t.kind = "List" -> ContainsPointer(type_(t.of))
      [] OTHER -> FALSE

\* some parameter or result type of f holds a pointer
FuncContainsPointer(f) ==
    \/ \E i \in 1..Len(f.params) : ContainsPointer(type_(f.params[i].tref))
    \/ \E i \in 1..Len(f.results) : ContainsPointer(type_(f.results[i].tref))

C12_BlockStacksNested ==
    /\ (mode \in {"func", "emit"} /\ pc = "body" /\ last.calls = 0) =>
          block_storage = <<>> /\ blocks = <<>>
    /\ last.call = "push_block" =>
          /\ block_storage = Append(last.block_storage, last.src)
          /\ blocks = last.blocks
    /\ (last.call = "finish_block" /\ last.ok) =>
          /\ last.block_storage # <<>>
          /\ src = Last(last.block_storage)
          /\ block_storage = Sub(last.block_storage, 1, Len(last.block_storage) - 1)
          /\ Len(blocks) = Len(last.blocks) + 1
          /\ Sub(blocks, 1, Len(last.blocks)) = last.blocks
    /\ (last.call \in {"emit", "allocate_space"}) => block_storage = last.block_storage
    /\ (mode = "func" /\ pc \in {"wrapped", "done"}) =>
          block_storage = <<>> /\ blocks = <<>>

\* call_wasm returned for a function whose result made the engine open and close two blocks
C12_Witness ==
    /\ mode = "func" /\ pc = "wrapped"
    /\ Count(src, "throw WasiError(") = 1
    /\ block_storage = <<>> /\ blocks = <<>>

\* the completed block finish_block records for a final operand after the statements body
BlockText(body, operand) ==
    IF body = <<>> THEN operand ELSE <<"{ ">> \o body \o <<";\n ">> \o operand \o <<" }">>

\* C13 as stated: push_block saves the current buffer and empties it; the matching
\* finish_block, whenever it is called, restores that buffer and records exactly one
\* completed block: the bare final operand, or the statements followed by the operand.
C13_AsClaimed ==
    /\ last.call = "push_block" =>
          src = <<>> /\ block_storage = Append(last.block_storage, last.src)
    /\ (last.call = "finish_block" /\ last.block_storage # <<>>) =>
          /\ last.ok
          /\ src = Last(last.block_storage)
          /\ Len(blocks) = Len(last.blocks) + 1
          /\ last.operands # <<>> => Last(blocks) = BlockText(last.src, last.operands[1])

\* C13: push_block saves the current buffer on the save stack and empties it; calls inside
\* the block only append to the current buffer and leave the saved ones alone; the matching
\* finish_block restores exactly the saved buffer; given a final operand it records one
\* block, the bare operand or { statements;\n operand }; given none it records the
\* block Unit when no statement was emitted inside the block and aborts otherwise.
C13_BlockFrame ==
    /\ last.call = "push_block" =>
          /\ src = <<>> /\ block_storage = Append(last.block_storage, last.src)
          /\ blocks = last.blocks
    /\ (last.call \in {"emit", "allocate_space"} /\ last.ok) =>
          /\ block_storage = last.block_storage
          /\ Sub(src, 1, Len(last.src)) = last.src
    /\ (last.call = "finish_block" /\ last.block_storage # <<>>) =>
          /\ src = Last(last.block_storage)
          /\ block_storage = Sub(last.block_storage, 1, Len(last.block_storage) - 1)
          /\ last.ok <=> (last.operands # <<>> \/ last.src = <<>>)
          /\ last.ok => /\ Len(blocks) = Len(last.blocks) + 1
                        /\ Sub(blocks, 1, Len(last.blocks)) = last.blocks
                        /\ Last(blocks) = IF last.operands = <<>> THEN <<"Unit">>
                                          ELSE BlockText(last.src, last.operands[1])
          /\ ~last.ok => blocks = last.blocks

\* an inner block with a statement and a final operand was finished inside an outer block
\* that holds a statement of its own, itself opened after the header was written
C13_Witness ==
    /\ last.call = "finish_block" /\ last.ok
    /\ last.operands # <<>> /\ last.src = allocate_space(1, "size", <<>>)
    /\ Len(last.block_storage) = 2
    /\ src = allocate_space(0, "size", <<>>)
    /\ Last(blocks) = <<"{ ">> \o last.src \o <<";\n ">> \o last.operands[1] \o <<" }">>

\* the last visitor call was emit(Return) and nothing was written since
AfterReturn ==
    /\ last.call = "emit" /\ last.inst.op = "Return"
    /\ pc \in {"body", "returned"} \/ ~last.ok

\* C14 as stated: Return with 0 values appends a bare return to the output buffer.
C14_AsClaimed ==
    (AfterReturn /\ last.inst.n = 0) =>
        /\ last.ok
        /\ \E t \in {"return", "return ", "return\n", "return;\n"} : src = Append(last.src, t)

\* C14: Return with 0 values appends nothing to the output buffer (the body ends without a
\* return statement); with 1 value it appends a return of that operand's rendered
\* expression; with more than 1 value it aborts generation.  It pushes no result and leaves
\* the completed blocks alone.
C14_Return ==
    AfterReturn =>
        /\ last.inst.n = 0 => (last.ok /\ src = last.src)
        /\ last.inst.n = 1 => (last.ok /\ src = Append(last.src, "return ") \o last.operands[1])
        /\ last.inst.n > 1 => (~last.ok /\ aborted /\ src = last.src)
        /\ last.results = <<>> /\ blocks = last.blocks

\* call_wasm of a function without results ended with Return of 0 values, after the raw call
\* was written
C14_Witness ==
    /\ mode = "func" /\ func.results = <<>> /\ pc = "body"
    /\ last.call = "emit" /\ last.inst.op = "Return" /\ last.inst.n = 0 /\ last.ok
    /\ Occurs(src, "_raw_wasm__")
    /\ ~Occurs(src, "return ")

\* the arms the claim describes for the cases of variant v from case i on: arm i is keyed
\* by i and constructs case i from the load of its payload at ptr + payload_offset(v)
RECURSIVE ClaimedArms(_, _, _)
ClaimedArms(n, v, i) ==
    IF i > Len(v.cases) THEN <<>>
    ELSE <<ToString(i - 1), " -> { ", to_camel_case(n), ".", v.cases[i].name, "(">>
         \o (IF v.cases[i].tref.ref = "None" THEN <<>>
             ELSE load_type_ref(v.cases[i].tref, <<"ptr", " + ", ToString(payload_offset(v))>>, <<>>).s)
         \o <<")", "} ">>
         \o ClaimedArms(n, v, i + 1)

\* C15: for every named variant with at least one payload-bearing case, load generation
\* succeeds and emits a dispatch on the loaded tag with one arm per case, in declaration
\* order, each constructing its case from the load of its payload at the common payload
\* offset, followed by the fallback arm that is a fatal error; whether or not other cases
\* carry a payload.
C15_GeneralVariantLoad ==
    (mode = "mem" /\ pc # "start" /\ memty \in GeneralVariants) =>
        /\ loadgen.ok
        /\ loadgen.s = <<"when (", load_fun(type_(Doc[memty].tref).tag_repr), "(", "ptr", ")", ".toInt()) { ">>
                       \o ClaimedArms(memty, type_(Doc[memty].tref), 1)
                       \o <<"else -> error(\"Invalid variant\")", "}">>

\* the keywords that open the declaration of a named type
DeclKeywords == {"data class ", "sealed class ", "enum class ", "typealias "}

\* the identifier that starts at position k of text s, with its __unsafe__ prefix if any
IdentAt(s, k) == IF s[k] = "__unsafe__" THEN <<s[k], s[k + 1]>> ELSE <<s[k]>>

\* the identifier under which the declaration text s declares its type
DeclaredIdent(s) == IdentAt(s, 1 + CHOOSE k \in 1..Len(s) : s[k] \in DeclKeywords /\ \A j \in 1..(k - 1) : s[j] \notin DeclKeywords)

\* the identifier a TypeRef naming n renders as
ReferenceIdent(n) == tref_render(Name(n), <<>>).s

\* the load code of named type n names its class: a data class constructor, an enumeration,
\* or the sealed class of the case constructors
LoadNamesType(n) ==
    \/ type_(Doc[n].tref).kind = "Variant"
    \/ /\ type_(Doc[n].tref).kind = "Record"
       /\ ~is_tuple(type_(Doc[n].tref)) /\ bitflags_repr(type_(Doc[n].tref)) = "none"

\* the class named by the load code s
LoadIdent(s) == IdentAt(s, IF s[1] = "when (" THEN IndexOf(s, " -> { ") + 1 ELSE 1)

\* C16: for every named type, the identifier rendered at a reference (a TypeRef naming it)
\* and the constructor or enumeration name used by its load code are the identifier under
\* which its declaration is rendered, the __unsafe__ prefix included.
C16_IdentifiersAgree ==
    (mode = "mem" /\ pc = "declared") =>
        /\ ReferenceIdent(memty) = DeclaredIdent(src)
        /\ LoadNamesType(memty) => LoadIdent(load_type(Doc[memty], <<"ptr">>, <<>>).s) = DeclaredIdent(src)

====
